---- MODULE Spec2Model ----
(***************************************************************************)
(* Model of the malda zk-coprocessor proof pipeline as it is exercised by  *)
(* methods/tests/integration_tests.rs: the journal entry codec             *)
(* (decode_journal), the request helper test_get_proof_data_with_params    *)
(* (shape assertions, one backend call, the positional check of the        *)
(* journal), and the orchestrator behind get_proof_data_exec and           *)
(* get_proof_data_prove_boundless, whose code lives in the malda_rs crate. *)
(*                                                                         *)
(* Representation of machine values:                                       *)
(*   byte      a number in 0..255                                          *)
(*   Address   a sequence of 20 bytes                                      *)
(*   U256      a sequence of 32 bytes, least significant byte first (the   *)
(*             limb order of the in-memory value)                          *)
(*   u64       four 16-bit limbs, most significant first                   *)
(*   u32       two 16-bit limbs, most significant first                    *)
(* Limbs keep every integer of the model inside the checker's range while  *)
(* keeping the full width of the value.                                    *)
(***************************************************************************)
EXTENDS Integers, Sequences, FiniteSets, TLC

(***************************************************************************)
(* Bounds of the model.                                                    *)
(***************************************************************************)
\* Largest number of source chain groups in a batch.
MaxGroups == 2
\* Largest number of users in one group.
MaxUsers == 2
\* How far the length of a raw entry handed to decode_journal may be from
\* ENTRY_SIZE, on either side.
MaxSlack == 2

(***************************************************************************)
(* Layout constants of decode_journal.                                     *)
(***************************************************************************)
ENTRY_SIZE == 113
SENDER_OFFSET == 0
SENDER_LENGTH == 20
MARKET_OFFSET == 20
MARKET_LENGTH == 20
ACC_AMOUNT_IN_OFFSET == 40
ACC_AMOUNT_IN_LENGTH == 32
ACC_AMOUNT_OUT_OFFSET == 72
ACC_AMOUNT_OUT_LENGTH == 32
CHAIN_ID_OFFSET == 104
CHAIN_ID_LENGTH == 4
DST_CHAIN_ID_OFFSET == 108
DST_CHAIN_ID_LENGTH == 4
L1_INCLUSION_OFFSET == 112

(***************************************************************************)
(* Addresses of the test suite.                                            *)
(***************************************************************************)
WETH_MARKET_SEPOLIA ==
    <<212, 40, 108, 197, 98, 185, 6, 88, 159, 130, 50, 51, 84, 19, 247, 157,
      154, 212, 47, 126>>
WETH_MARKET ==
    <<199, 188, 107, 212, 94, 184, 77, 89, 79, 81, 206, 211, 197, 73, 126,
      104, 18, 199, 115, 47>>
TEST_USER ==
    <<38, 147, 148, 103, 145, 218, 153, 218, 120, 172, 68, 26, 186, 109, 92,
      226, 188, 205, 150, 211>>
USER2 ==
    <<229, 15, 169, 179, 197, 111, 251, 21, 156, 176, 252, 166, 31, 92, 157,
      117, 14, 129, 40, 200>>

(***************************************************************************)
(* Chain identifiers (malda_rs::constants).                                *)
(***************************************************************************)
ETHEREUM_CHAIN_ID == 1
OPTIMISM_CHAIN_ID == 10
BASE_CHAIN_ID == 8453
LINEA_CHAIN_ID == 59144
ETHEREUM_SEPOLIA_CHAIN_ID == 11155111
OPTIMISM_SEPOLIA_CHAIN_ID == 11155420
BASE_SEPOLIA_CHAIN_ID == 84532
LINEA_SEPOLIA_CHAIN_ID == 59141

(***************************************************************************)
(* Machine integers.                                                       *)
(***************************************************************************)
\* The u64 whose value is n (n below 2^31).
U64Of(n) == <<0, 0, n \div 65536, n % 65536>>

\* The u64 whose value is n + k * 2^32.
U64High(k, n) == <<0, k, n \div 65536, n % 65536>>

\* `x as u32`: the low 32 bits of a u64.
AsU32(x) == <<x[3], x[4]>>

\* Variant: the four bytes read least significant first.
U32FromLe(b) == <<b[4] * 256 + b[3], b[2] * 256 + b[1]>>

\* u32::from_be_bytes on four bytes.
U32FromBe(b) == <<b[1] * 256 + b[2], b[3] * 256 + b[4]>>

\* u32::to_be_bytes.
U32ToBe(w) == <<w[1] \div 256, w[1] % 256, w[2] \div 256, w[2] % 256>>

Reverse(s) == [i \in 1..Len(s) |-> s[Len(s) + 1 - i]]

\* U256::from_be_slice: the big-endian bytes become the value, stored least
\* significant byte first.
U256FromBe(b) == Reverse(b)

\* U256::to_be_bytes.
U256ToBe(v) == Reverse(v)

\* Address::from_slice copies the 20 bytes.
AddressFromSlice(b) == b

\* journal_data[off .. off + len], offsets counted from 0 as in the source.
Slice(d, off, len) == SubSeq(d, off + 1, off + len)

(***************************************************************************)
(* decode_journal                                                          *)
(***************************************************************************)
NoEntry == [sender |-> <<>>, market |-> <<>>, acc_amount_in |-> <<>>,
            acc_amount_out |-> <<>>, chain_id |-> <<>>, dst_chain_id |-> <<>>,
            l1_inclusion |-> FALSE]

DecodeErr(msg) == [ok |-> FALSE, err |-> msg, entry |-> NoEntry]

DecodeOk(e) == [ok |-> TRUE, err |-> "", entry |-> e]

\* Variant: the boolean byte is not checked.
decode_journal_any_bool(journal_data) ==
    IF Len(journal_data) # ENTRY_SIZE
    THEN DecodeErr("Invalid journal data length")
    ELSE DecodeOk(
           [sender |-> AddressFromSlice(Slice(journal_data, SENDER_OFFSET, SENDER_LENGTH)),
            market |-> AddressFromSlice(Slice(journal_data, MARKET_OFFSET, MARKET_LENGTH)),
            acc_amount_in |->
                U256FromBe(Slice(journal_data, ACC_AMOUNT_IN_OFFSET, ACC_AMOUNT_IN_LENGTH)),
            acc_amount_out |->
                U256FromBe(Slice(journal_data, ACC_AMOUNT_OUT_OFFSET, ACC_AMOUNT_OUT_LENGTH)),
            chain_id |-> U32FromBe(Slice(journal_data, CHAIN_ID_OFFSET, CHAIN_ID_LENGTH)),
            dst_chain_id |->
                U32FromBe(Slice(journal_data, DST_CHAIN_ID_OFFSET, DST_CHAIN_ID_LENGTH)),
            l1_inclusion |-> journal_data[L1_INCLUSION_OFFSET + 1] # 0])

decode_journal(journal_data) ==
    IF Len(journal_data) # ENTRY_SIZE
    THEN DecodeErr("Invalid journal data length")
    ELSE LET l1_inclusion_byte == journal_data[L1_INCLUSION_OFFSET + 1]
         IN  IF l1_inclusion_byte # 0 /\ l1_inclusion_byte # 1
             THEN DecodeErr("Invalid L1 inclusion value")
             ELSE DecodeOk(
                    [sender |->
                         AddressFromSlice(Slice(journal_data, SENDER_OFFSET, SENDER_LENGTH)),
                     market |->
                         AddressFromSlice(Slice(journal_data, MARKET_OFFSET, MARKET_LENGTH)),
                     acc_amount_in |->
                         U256FromBe(Slice(journal_data, ACC_AMOUNT_IN_OFFSET,
                                          ACC_AMOUNT_IN_LENGTH)),
                     acc_amount_out |->
                         U256FromBe(Slice(journal_data, ACC_AMOUNT_OUT_OFFSET,
                                          ACC_AMOUNT_OUT_LENGTH)),
                     chain_id |->
                         U32FromBe(Slice(journal_data, CHAIN_ID_OFFSET, CHAIN_ID_LENGTH)),
                     dst_chain_id |->
                         U32FromBe(Slice(journal_data, DST_CHAIN_ID_OFFSET,
                                         DST_CHAIN_ID_LENGTH)),
                     l1_inclusion |-> l1_inclusion_byte = 1])

(***************************************************************************)
(* Fixed-record encode (spec section 6; produced by the proving guest).    *)
(***************************************************************************)
\* One flattened unit of work.
Obligation(sender, market, chain_id, dst_chain_id, l1) ==
    [sender |-> sender, market |-> market, chain_id |-> chain_id,
     dst_chain_id |-> dst_chain_id, l1_inclusion |-> l1]

encode_journal(o, acc_in, acc_out) ==
    o.sender \o o.market \o U256ToBe(acc_in) \o U256ToBe(acc_out)
      \o U32ToBe(AsU32(o.chain_id)) \o U32ToBe(AsU32(o.dst_chain_id))
      \o <<IF o.l1_inclusion THEN 1 ELSE 0>>

(***************************************************************************)
(* Chain Policy Registry (spec section 4.1; malda_rs).                     *)
(***************************************************************************)
L1InclusionChains ==
    {U64Of(OPTIMISM_CHAIN_ID), U64Of(BASE_CHAIN_ID), U64Of(LINEA_CHAIN_ID),
     U64Of(OPTIMISM_SEPOLIA_CHAIN_ID), U64Of(BASE_SEPOLIA_CHAIN_ID),
     U64Of(LINEA_SEPOLIA_CHAIN_ID)}

supports_l1_inclusion(chain_id) == chain_id \in L1InclusionChains

L1_INCLUSION_MESSAGE ==
    "L1 Inclusion only supported for Optimism, Base, Linea and their Sepolia variants"

(***************************************************************************)
(* Request inputs: the arguments of test_get_proof_data_with_params.       *)
(***************************************************************************)
Req == {1, 2}

NoBatch == [users |-> <<>>, assets |-> <<>>, dst_chain_ids |-> <<>>,
            chain_ids |-> <<>>, l1_inclusion |-> FALSE, fallback |-> FALSE,
            boundless |-> FALSE, onchain |-> FALSE]

UserPool == <<TEST_USER, USER2>>

AssetPool == <<WETH_MARKET, WETH_MARKET_SEPOLIA>>

DstPool == <<U64Of(OPTIMISM_CHAIN_ID), U64Of(LINEA_CHAIN_ID)>>

\* A chain id that differs from Optimism's only above bit 31.
HIGH_OPTIMISM == U64High(1, OPTIMISM_CHAIN_ID)

ChainPool ==
    <<U64Of(LINEA_CHAIN_ID), U64Of(BASE_SEPOLIA_CHAIN_ID), U64Of(ETHEREUM_CHAIN_ID),
      U64Of(OPTIMISM_CHAIN_ID), HIGH_OPTIMISM, U64Of(ETHEREUM_SEPOLIA_CHAIN_ID),
      U64Of(BASE_CHAIN_ID), U64Of(OPTIMISM_SEPOLIA_CHAIN_ID),
      U64Of(LINEA_SEPOLIA_CHAIN_ID)>>

Pick(pool, k) == pool[(k % Len(pool)) + 1]

\* The batch with n groups of sizes sz[1..n], chain ids taken from ChainPool
\* starting at rotation rot; group pa (pd) has one asset (destination) too
\* many when pa (pd) is not 0; the outer vector named by po has one element
\* too many.
MakeBatch(n, sz, rot, pa, pd, po, l1, fb, bl, oc) ==
    [users |-> [g \in 1..n |-> [i \in 1..sz[g] |-> Pick(UserPool, g + i)]],
     assets |->
        [g \in 1..n |->
            [i \in 1..(sz[g] + (IF pa = g THEN 1 ELSE 0)) |-> Pick(AssetPool, g + i)]]
        \o (IF po = "assets" THEN <<<<>>>> ELSE <<>>),
     dst_chain_ids |->
        [g \in 1..n |->
            [i \in 1..(sz[g] + (IF pd = g THEN 1 ELSE 0)) |-> Pick(DstPool, g + i)]]
        \o (IF po = "dst_chain_ids" THEN <<<<>>>> ELSE <<>>),
     chain_ids |->
        [g \in 1..n |-> Pick(ChainPool, rot + g - 1)]
        \o (IF po = "chain_ids" THEN <<Pick(ChainPool, rot + n)>> ELSE <<>>),
     l1_inclusion |-> l1, fallback |-> fb, boundless |-> bl, onchain |-> oc]

\* get_proof_data_exec takes no onchain argument: the helper's callers pass
\* false with it.
BackendFlags == {<<FALSE, FALSE>>, <<TRUE, FALSE>>, <<TRUE, TRUE>>}

\* Which vectors of a batch of n groups are one element too long:
\* <<pa, pd, po>> as in MakeBatch.
Perturbations(n) ==
    (((0..n) \X (0..n) \X {"none"})
        \cup ({0} \X {0} \X {"assets", "dst_chain_ids", "chain_ids"}))
    \ {<<0, 0, "none">>}

SizePlans(n) == [1..n -> 0..MaxUsers]

Rotations == 0..(Len(ChainPool) - 1)

(***************************************************************************)
(* Validation: the helper's shape assertions, then the L1-inclusion rule   *)
(* applied inside get_proof_data_exec / get_proof_data_prove_boundless.    *)
(***************************************************************************)
ValidationOk == [kind |-> "Ok", field |-> "", group_index |-> -1, msg |-> ""]

LengthMismatch(field, group_index) ==
    [kind |-> "LengthMismatch", field |-> field, group_index |-> group_index,
     msg |-> ""]

UnsupportedL1Inclusion(group_index) ==
    [kind |-> "UnsupportedL1Inclusion", field |-> "chain_id",
     group_index |-> group_index, msg |-> L1_INCLUSION_MESSAGE]

Min(S) == CHOOSE x \in S : \A y \in S : x <= y

\* Lines 121-136: the three outer vectors against users.len(). A group
\* index of -1 marks a mismatch of the outer vectors.
OuterLengths(b) ==
    IF Len(b.assets) # Len(b.users) THEN LengthMismatch("assets", -1)
    ELSE IF Len(b.dst_chain_ids) # Len(b.users)
    THEN LengthMismatch("dst_chain_ids", -1)
    ELSE IF Len(b.chain_ids) # Len(b.users) THEN LengthMismatch("chain_ids", -1)
    ELSE ValidationOk

\* Variant: every group's assets before any group's dst_chain_ids.
InnerLengthsRuleMajor(b) ==
    LET badA == {g \in 1..Len(b.users) : Len(b.assets[g]) # Len(b.users[g])}
        badD == {g \in 1..Len(b.users) : Len(b.dst_chain_ids[g]) # Len(b.users[g])}
    IN  IF badA # {} THEN LengthMismatch("assets", Min(badA) - 1)
        ELSE IF badD # {} THEN LengthMismatch("dst_chain_ids", Min(badD) - 1)
        ELSE ValidationOk

\* Variant: the assets vectors are not compared.
InnerLengthsDstOnly(b) ==
    LET badD == {g \in 1..Len(b.users) : Len(b.dst_chain_ids[g]) # Len(b.users[g])}
    IN  IF badD # {} THEN LengthMismatch("dst_chain_ids", Min(badD) - 1)
        ELSE ValidationOk

\* Lines 139-148: for i in 0..expected_length, assets[i] then dst_chain_ids[i]
\* against users[i]; the first failing assertion panics. group_index is the
\* source's 0-based i.
InnerLengths(b) ==
    LET bad == {g \in 1..Len(b.users) :
                   \/ Len(b.assets[g]) # Len(b.users[g])
                   \/ Len(b.dst_chain_ids[g]) # Len(b.users[g])}
    IN  IF bad = {} THEN ValidationOk
        ELSE LET g == Min(bad)
             IN  IF Len(b.assets[g]) # Len(b.users[g])
                 THEN LengthMismatch("assets", g - 1)
                 ELSE LengthMismatch("dst_chain_ids", g - 1)

\* Variant: only the first group's chain is looked up.
L1RuleFirstGroupOnly(b) ==
    IF b.l1_inclusion /\ Len(b.chain_ids) > 0 /\ ~supports_l1_inclusion(b.chain_ids[1])
    THEN UnsupportedL1Inclusion(0)
    ELSE ValidationOk

\* Spec 4.2 rule 3.
L1Rule(b) ==
    LET bad == {g \in 1..Len(b.chain_ids) : ~supports_l1_inclusion(b.chain_ids[g])}
    IN  IF b.l1_inclusion /\ bad # {} THEN UnsupportedL1Inclusion(Min(bad) - 1)
        ELSE ValidationOk

validate(b) ==
    IF OuterLengths(b).kind # "Ok" THEN OuterLengths(b)
    ELSE IF InnerLengths(b).kind # "Ok" THEN InnerLengths(b)
    ELSE L1Rule(b)

(***************************************************************************)
(* Flattening: the order of the helper's nested loops over users.          *)
(***************************************************************************)
\* The (outer_idx, inner_idx) pairs in the order journal_index counts them.
Positions(users) ==
    LET upto[g \in 0..Len(users)] ==
            IF g = 0 THEN <<>>
            ELSE upto[g - 1] \o [i \in 1..Len(users[g]) |-> <<g, i>>]
    IN  upto[Len(users)]

ObligationAt(b, g, i) ==
    Obligation(b.users[g][i], b.assets[g][i], b.chain_ids[g],
               b.dst_chain_ids[g][i], b.l1_inclusion)

\* Variant: an obligation equal to an earlier one is left out.
FlattenDedup(b) ==
    LET P == Positions(b.users)
        all == [k \in 1..Len(P) |-> ObligationAt(b, P[k][1], P[k][2])]
        keep[k \in 0..Len(P)] ==
            IF k = 0 THEN <<>>
            ELSE IF \E j \in 1..(k - 1) :
                       /\ all[j].sender = all[k].sender
                       /\ all[j].market = all[k].market
                       /\ all[j].dst_chain_id = all[k].dst_chain_id
                 THEN keep[k - 1]
                 ELSE Append(keep[k - 1], all[k])
    IN  keep[Len(P)]

Flatten(b) ==
    LET P == Positions(b.users)
    IN  [k \in 1..Len(P) |-> ObligationAt(b, P[k][1], P[k][2])]

(***************************************************************************)
(* The proving backend's answers.  The backends are collaborators outside  *)
(* this core: an answer is an error, or journal bytes that are the honest  *)
(* journal of the submitted obligations or differ from it in one place.    *)
(***************************************************************************)
ZeroAcc == [i \in 1..ACC_AMOUNT_IN_LENGTH |-> 0]

SomeAcc == [i \in 1..ACC_AMOUNT_IN_LENGTH |-> i]

AccPool == {ZeroAcc, SomeAcc}

\* The Journal envelope after <Vec<Bytes>>::abi_decode: either the byte
\* string is no ABI array (wellformed = FALSE) or it is the array elems.
\* returned tells bytes the call handed back from no bytes at all.
Journal(elems) == [returned |-> TRUE, wellformed |-> TRUE, elems |-> elems]

MalformedJournal == [returned |-> TRUE, wellformed |-> FALSE, elems |-> <<>>]

NoJournal == [returned |-> FALSE, wellformed |-> FALSE, elems |-> <<>>]

\* seal_bytes: opaque to this core, one value stands for any seal.
SEAL == <<"seal">>

NoSeal == <<>>

HonestElems(obl, acc) == [k \in 1..Len(obl) |-> encode_journal(obl[k], acc, acc)]

Fields == {"sender", "market", "chain_id", "dst_chain_id", "l1_inclusion"}

\* The obligation o with one field changed to another value of its type.
AlterField(o, f) ==
    CASE f = "sender" ->
           [o EXCEPT !.sender = IF @ = TEST_USER THEN USER2 ELSE TEST_USER]
      [] f = "market" ->
           [o EXCEPT !.market = IF @ = WETH_MARKET THEN WETH_MARKET_SEPOLIA
                                ELSE WETH_MARKET]
      [] f = "chain_id" ->
           [o EXCEPT !.chain_id = IF AsU32(@) = AsU32(U64Of(ETHEREUM_CHAIN_ID))
                                  THEN U64Of(LINEA_CHAIN_ID)
                                  ELSE U64Of(ETHEREUM_CHAIN_ID)]
      [] f = "dst_chain_id" ->
           [o EXCEPT !.dst_chain_id = IF @ = U64Of(OPTIMISM_CHAIN_ID)
                                      THEN U64Of(LINEA_CHAIN_ID)
                                      ELSE U64Of(OPTIMISM_CHAIN_ID)]
      [] f = "l1_inclusion" -> [o EXCEPT !.l1_inclusion = ~@]

ExtraObligation ==
    Obligation(TEST_USER, WETH_MARKET, U64Of(LINEA_CHAIN_ID),
               U64Of(OPTIMISM_CHAIN_ID), FALSE)

\* The honest journal under either accumulator value; the honest journal
\* with one entry more (a well-formed one, an empty one), with the last
\* entry missing, with one field of one entry changed, with one entry's
\* boolean byte set to 2, with one entry a byte short; bytes that are no
\* ABI array.
JournalAnswers(obl) ==
    LET N == Len(obl)
        h == HonestElems(obl, SomeAcc)
    IN  { Journal(HonestElems(obl, acc)) : acc \in AccPool }
        \cup {Journal(Append(h, encode_journal(ExtraObligation, SomeAcc, SomeAcc))),
              Journal(Append(h, <<>>)), MalformedJournal}
        \cup (IF N > 0 THEN {Journal(SubSeq(h, 1, N - 1))} ELSE {})
        \cup { Journal([h EXCEPT ![p] =
                          encode_journal(AlterField(obl[p], f), SomeAcc, SomeAcc)]) :
                 p \in 1..N, f \in Fields }
        \cup { Journal([h EXCEPT ![p][L1_INCLUSION_OFFSET + 1] = 2]) : p \in 1..N }
        \cup { Journal([h EXCEPT ![p] = SubSeq(@, 1, ENTRY_SIZE - 1)]) : p \in 1..N }

BackendErrors == {"BackendSubmissionFailure", "BackendTimeout", "MalformedBackendResponse"}

(***************************************************************************)
(* The helper's check of a returned journal against the request.           *)
(***************************************************************************)
VerifyOk == [ok |-> TRUE, class |-> "", msg |-> ""]

VerifyErr(class, msg) == [ok |-> FALSE, class |-> class, msg |-> msg]

\* Line 254: users.iter().map(|user_vec| user_vec.len()).sum().
TotalExpectedEntries(users) ==
    LET sum[g \in 0..Len(users)] ==
            IF g = 0 THEN 0 ELSE sum[g - 1] + Len(users[g])
    IN  sum[Len(users)]

\* Variant: the entry's chain ids are widened and compared with the
\* request's 64-bit values.
CheckEntryFullWidth(b, g, i, raw) ==
    LET d == decode_journal(raw)
    IN  IF ~d.ok THEN VerifyErr("CodecError", d.err)
        ELSE IF d.entry.sender # b.users[g][i]
        THEN VerifyErr("VerificationError", "Sender should match the test user")
        ELSE IF d.entry.market # b.assets[g][i]
        THEN VerifyErr("VerificationError", "Market should match the test asset")
        ELSE IF <<0, 0, d.entry.chain_id[1], d.entry.chain_id[2]>> # b.chain_ids[g]
        THEN VerifyErr("VerificationError", "Chain ID should match the test chain ID")
        ELSE IF <<0, 0, d.entry.dst_chain_id[1], d.entry.dst_chain_id[2]>>
                    # b.dst_chain_ids[g][i]
        THEN VerifyErr("VerificationError",
                       "Dst chain ID should match the test dst chain ID")
        ELSE IF d.entry.l1_inclusion # b.l1_inclusion
        THEN VerifyErr("VerificationError",
                       "L1 inclusion should match the test parameter")
        ELSE VerifyOk

\* One pass of the loop body (lines 190-227 and 266-293) for journal entry
\* raw at position [g, i]: decode_journal(..).unwrap(), then the five
\* assert_eq in source order.
CheckEntry(b, g, i, raw) ==
    LET d == decode_journal(raw)
    IN  IF ~d.ok THEN VerifyErr("CodecError", d.err)
        ELSE IF d.entry.sender # b.users[g][i]
        THEN VerifyErr("VerificationError", "Sender should match the test user")
        ELSE IF d.entry.market # b.assets[g][i]
        THEN VerifyErr("VerificationError", "Market should match the test asset")
        ELSE IF d.entry.chain_id # AsU32(b.chain_ids[g])
        THEN VerifyErr("VerificationError", "Chain ID should match the test chain ID")
        ELSE IF d.entry.dst_chain_id # AsU32(b.dst_chain_ids[g][i])
        THEN VerifyErr("VerificationError",
                       "Dst chain ID should match the test dst chain ID")
        ELSE IF d.entry.l1_inclusion # b.l1_inclusion
        THEN VerifyErr("VerificationError",
                       "L1 inclusion should match the test parameter")
        ELSE VerifyOk

\* The nested loops with journal_index: journals[journal_index] panics when
\* the journal is shorter than the loop reaches.
VerifyLoop(b, journals) ==
    LET P == Positions(b.users)
        bad == {k \in 1..Len(P) :
                   \/ k > Len(journals)
                   \/ ~CheckEntry(b, P[k][1], P[k][2], journals[k]).ok}
    IN  IF bad = {} THEN VerifyOk
        ELSE LET k == Min(bad)
             IN  IF k > Len(journals)
                 THEN VerifyErr("VerificationError", "index out of bounds")
                 ELSE CheckEntry(b, P[k][1], P[k][2], journals[k])

\* Variant: on the market path the entry count is asserted for on-chain
\* submissions.
decode_and_verify_count_onchain(b, journal) ==
    IF ~journal.wellformed THEN VerifyErr("CodecError", "Failed to decode journal")
    ELSE IF (~b.boundless \/ b.onchain)
            /\ Len(journal.elems) # TotalExpectedEntries(b.users)
    THEN VerifyErr("VerificationError", "Expected journal entries")
    ELSE VerifyLoop(b, journal.elems)

\* Lines 181-231 (boundless) and 250-297 (exec): abi_decode(..).expect(..),
\* on the exec path the assertion on journals.len(), then the loops.
decode_and_verify(b, journal) ==
    IF ~journal.wellformed THEN VerifyErr("CodecError", "Failed to decode journal")
    ELSE IF ~b.boundless /\ Len(journal.elems) # TotalExpectedEntries(b.users)
    THEN VerifyErr("VerificationError", "Expected journal entries")
    ELSE VerifyLoop(b, journal.elems)

(***************************************************************************)
(* State.                                                                  *)
(***************************************************************************)
VARIABLES
    batch,        \* batch[r]: the arguments of request r
    pc,           \* pc[r]: Absent, Start, Validated, Flattened, Submitted,
                  \*        Completed, Failed, Rejected or Cancelled
    err,          \* err[r]: the error request r ended with
    obligations,  \* obligations[r]: the flattened obligation sequence
    calls,        \* calls[r]: the backend prove calls made for r, in order
    journal,      \* journal[r]: the journal the backend answered with
    seal,         \* seal[r]: the seal the market backend answered with
    anchored,     \* anchored[r]: on-chain anchorings made for r's submission
    cpc,          \* codec run: idle, encode, decode or done
    centry,       \* codec run: the entry to encode
    craw,         \* codec run: the bytes handed to decode_journal
    cdec          \* codec run: what decode_journal returned

vars == <<batch, pc, err, obligations, calls, journal, seal, anchored,
          cpc, centry, craw, cdec>>

reqVars == <<batch, pc, err, obligations, calls, journal, seal, anchored>>

codecVars == <<cpc, centry, craw, cdec>>

NoErr == [class |-> "", kind |-> "", field |-> "", group_index |-> -1, msg |-> ""]

ValidationError(v) ==
    [class |-> "ValidationError", kind |-> v.kind, field |-> v.field,
     group_index |-> v.group_index, msg |-> v.msg]

ProofError(kind) ==
    [class |-> "ProofError", kind |-> kind, field |-> "", group_index |-> -1,
     msg |-> ""]

CheckError(v) ==
    [class |-> v.class, kind |-> "", field |-> "", group_index |-> -1, msg |-> v.msg]

NoCodecEntry == [ob |-> Obligation(<<>>, <<>>, <<>>, <<>>, FALSE),
                 acc_in |-> <<>>, acc_out |-> <<>>]

CodecIdle ==
    /\ cpc = "idle"
    /\ centry = NoCodecEntry
    /\ craw = <<>>
    /\ cdec = DecodeErr("")

RequestsIdle ==
    /\ batch = [r \in Req |-> NoBatch]
    /\ pc = [r \in Req |-> "Absent"]
    /\ err = [r \in Req |-> NoErr]
    /\ obligations = [r \in Req |-> <<>>]
    /\ calls = [r \in Req |-> <<>>]
    /\ journal = [r \in Req |-> NoJournal]
    /\ seal = [r \in Req |-> NoSeal]
    /\ anchored = [r \in Req |-> 0]

\* Request 1 has arrived with batch b; nothing else has happened.
InitWith(b) ==
    /\ batch = [r \in Req |-> IF r = 1 THEN b ELSE NoBatch]
    /\ pc = [r \in Req |-> IF r = 1 THEN "Start" ELSE "Absent"]
    /\ err = [r \in Req |-> NoErr]
    /\ obligations = [r \in Req |-> <<>>]
    /\ calls = [r \in Req |-> <<>>]
    /\ journal = [r \in Req |-> NoJournal]
    /\ seal = [r \in Req |-> NoSeal]
    /\ anchored = [r \in Req |-> 0]
    /\ CodecIdle

\* One request.  Its batch is any batch of consistent shape under every
\* flag, or a batch of inconsistent shape under both values of
\* l1_inclusion (the helper reads no other flag before its shape
\* assertions).
Init ==
    \E n \in 0..MaxGroups : \E sz \in SizePlans(n) : \E rot \in Rotations :
        \E l1 \in BOOLEAN :
            \/ \E fb \in BOOLEAN : \E bf \in BackendFlags :
                  InitWith(MakeBatch(n, sz, rot, 0, 0, "none", l1, fb, bf[1], bf[2]))
            \/ \E p \in Perturbations(n) :
                  InitWith(MakeBatch(n, sz, rot, p[1], p[2], p[3], l1,
                                     FALSE, FALSE, FALSE))

(***************************************************************************)
(* Request steps.                                                          *)
(***************************************************************************)
\* The assertions at the head of the helper and the L1-inclusion rule: the
\* request is rejected with the first failure, before anything else runs.
Validate(r) ==
    /\ pc[r] = "Start"
    /\ LET v == validate(batch[r])
       IN  IF v.kind = "Ok"
           THEN /\ pc' = [pc EXCEPT ![r] = "Validated"]
                /\ err' = err
           ELSE /\ pc' = [pc EXCEPT ![r] = "Rejected"]
                /\ err' = [err EXCEPT ![r] = ValidationError(v)]
    /\ UNCHANGED <<batch, obligations, calls, journal, seal, anchored, codecVars>>

FlattenStep(r) ==
    /\ pc[r] = "Validated"
    /\ obligations' = [obligations EXCEPT ![r] = Flatten(batch[r])]
    /\ pc' = [pc EXCEPT ![r] = "Flattened"]
    /\ UNCHANGED <<batch, err, calls, journal, seal, anchored, codecVars>>

\* Variant: the fallback flag is not handed on.
ProveCallWithoutFallback(b, obl) ==
    [backend |-> IF b.boundless THEN "market" ELSE "local",
     obligations |-> obl, l1_inclusion |-> b.l1_inclusion,
     fallback |-> FALSE, onchain |-> b.onchain]

\* The arguments of the call: get_proof_data_prove_boundless when boundless
\* is set, get_proof_data_exec otherwise, with the caller's flags.
ProveCall(b, obl) ==
    [backend |-> IF b.boundless THEN "market" ELSE "local",
     obligations |-> obl, l1_inclusion |-> b.l1_inclusion,
     fallback |-> b.fallback, onchain |-> b.onchain]

\* Variants: a submission is made again after a failure; a submission
\* is made for a request that was not flattened.
SubmitFromRetry(r) == pc[r] \in {"Flattened", "Failed"} /\ Len(calls[r]) < 2

SubmitFromUnflattened(r) == pc[r] \in {"Validated", "Flattened"}

\* A submission follows the flattening, once.
SubmitFrom(r) == pc[r] = "Flattened"

\* Variant: a request whose batch another request has already submitted
\* makes no call of its own and waits for that one's answer.
SubmitDeduplicated(r) ==
    /\ SubmitFrom(r)
    /\ IF \E q \in Req \ {r} : batch[q] = batch[r] /\ Len(calls[q]) > 0
       THEN calls' = calls
       ELSE calls' = [calls EXCEPT ![r] =
                         Append(@, ProveCall(batch[r], obligations[r]))]
    /\ pc' = [pc EXCEPT ![r] = "Submitted"]
    /\ UNCHANGED <<batch, err, obligations, journal, seal, anchored, codecVars>>

\* The one call of get_proof_data_prove_boundless (boundless) or
\* get_proof_data_exec for the whole obligation sequence.
Submit(r) ==
    /\ SubmitFrom(r)
    /\ calls' = [calls EXCEPT ![r] = Append(@, ProveCall(batch[r], obligations[r]))]
    /\ pc' = [pc EXCEPT ![r] = "Submitted"]
    /\ UNCHANGED <<batch, err, obligations, journal, seal, anchored, codecVars>>

\* Variant: the anchoring transaction is sent for a request the caller
\* has abandoned.
AnchorFromCancelled(r) == pc[r] \in {"Submitted", "Cancelled"} /\ anchored[r] = 0

\* The anchoring transaction is sent once, while the submission is pending.
AnchorFrom(r) == pc[r] = "Submitted" /\ anchored[r] = 0

\* The market backend anchors a submit_onchain request on chain: one
\* discrete step, which no later step takes back.
Anchor(r) ==
    /\ AnchorFrom(r)
    /\ Len(calls[r]) > 0
    /\ calls[r][Len(calls[r])].backend = "market"
    /\ calls[r][Len(calls[r])].onchain
    /\ anchored' = [anchored EXCEPT ![r] = @ + 1]
    /\ UNCHANGED <<batch, pc, err, obligations, calls, journal, seal, codecVars>>

\* Whether the backend can answer with a result: a submit_onchain request
\* is fulfilled after it was anchored.
Fulfillable(r) ==
    (/\ Len(calls[r]) > 0
     /\ calls[r][Len(calls[r])].backend = "market"
     /\ calls[r][Len(calls[r])].onchain)
        => anchored[r] > 0

\* Variant: with the error the request keeps the journal entries of the
\* obligations proved before the failure.
BackendFailsPartial(r) ==
    /\ pc[r] = "Submitted"
    /\ \E e \in BackendErrors : err' = [err EXCEPT ![r] = ProofError(e)]
    /\ \E k \in 0..Len(obligations[r]) :
          journal' = [journal EXCEPT ![r] =
                         IF k = 0 THEN NoJournal
                         ELSE Journal(SubSeq(HonestElems(obligations[r], SomeAcc), 1, k))]
    /\ pc' = [pc EXCEPT ![r] = "Failed"]
    /\ UNCHANGED <<batch, obligations, calls, seal, anchored, codecVars>>

\* Variant: a timeout is noted and the request goes on waiting.
BackendFailsTimeoutPending(r) ==
    /\ pc[r] = "Submitted"
    /\ \E e \in BackendErrors :
          /\ err' = [err EXCEPT ![r] = ProofError(e)]
          /\ pc' = [pc EXCEPT ![r] = IF e = "BackendTimeout" THEN "Submitted"
                                     ELSE "Failed"]
    /\ UNCHANGED <<batch, obligations, calls, journal, seal, anchored, codecVars>>

\* The awaited call returns Err: .unwrap() ends the request.
BackendFails(r) ==
    /\ pc[r] = "Submitted"
    /\ \E e \in BackendErrors : err' = [err EXCEPT ![r] = ProofError(e)]
    /\ pc' = [pc EXCEPT ![r] = "Failed"]
    /\ UNCHANGED <<batch, obligations, calls, journal, seal, anchored, codecVars>>

\* The awaited call returns a journal; the helper decodes and checks it.
BackendReturns(r) ==
    /\ pc[r] = "Submitted"
    /\ Fulfillable(r)
    /\ seal' = [seal EXCEPT ![r] = IF batch[r].boundless THEN SEAL ELSE NoSeal]
    /\ \E j \in JournalAnswers(obligations[r]) :
          LET v == decode_and_verify(batch[r], j)
          IN  /\ journal' = [journal EXCEPT ![r] = j]
              /\ IF v.ok
                 THEN /\ pc' = [pc EXCEPT ![r] = "Completed"]
                      /\ err' = err
                 ELSE /\ pc' = [pc EXCEPT ![r] = "Failed"]
                      /\ err' = [err EXCEPT ![r] = CheckError(v)]
    /\ UNCHANGED <<batch, obligations, calls, anchored, codecVars>>

Next ==
    \E r \in Req :
        \/ Validate(r)
        \/ FlattenStep(r)
        \/ Submit(r)
        \/ Anchor(r)
        \/ BackendFails(r)
        \/ BackendReturns(r)

Spec == Init /\ [][Next]_vars

(***************************************************************************)
(* Codec runs: decode_journal applied to raw bytes, and to the encoding of *)
(* an entry.                                                               *)
(***************************************************************************)
ByteSamples == {0, 1, 2, 127, 128, 255}

BaseEntries ==
    { encode_journal(Obligation(TEST_USER, WETH_MARKET, U64Of(LINEA_CHAIN_ID),
                                U64Of(OPTIMISM_CHAIN_ID), l1), SomeAcc, ZeroAcc) :
        l1 \in BOOLEAN }

\* Byte strings around the record size: one byte of a well-formed record
\* replaced, the record cut short, the record with bytes appended.
RawInputs ==
    UNION { { [e EXCEPT ![k] = v] : k \in 1..(ENTRY_SIZE - 1), v \in ByteSamples }
            \cup { [e EXCEPT ![ENTRY_SIZE] = v] : v \in 0..255 }
            \cup { SubSeq(e, 1, n) : n \in {0} \cup ((ENTRY_SIZE - MaxSlack)..ENTRY_SIZE) }
            \cup { e \o [i \in 1..k |-> v] : k \in 1..MaxSlack, v \in {0, 1, 2} }
          : e \in BaseEntries }

CodecEntries ==
    { [ob |-> Obligation(u, m, c, d, l1), acc_in |-> a, acc_out |-> o] :
        u \in {TEST_USER, USER2}, m \in {WETH_MARKET, WETH_MARKET_SEPOLIA},
        c \in {ChainPool[k] : k \in 1..Len(ChainPool)},
        d \in {DstPool[k] : k \in 1..Len(DstPool)} \cup {HIGH_OPTIMISM},
        l1 \in BOOLEAN, a \in AccPool, o \in AccPool }

CodecInit ==
    /\ RequestsIdle
    /\ cdec = DecodeErr("")
    /\ \/ /\ cpc = "decode"
          /\ centry = NoCodecEntry
          /\ craw \in RawInputs
       \/ /\ cpc = "encode"
          /\ centry \in CodecEntries
          /\ craw = <<>>

EncodeStep ==
    /\ cpc = "encode"
    /\ craw' = encode_journal(centry.ob, centry.acc_in, centry.acc_out)
    /\ cpc' = "decode"
    /\ UNCHANGED <<centry, cdec, reqVars>>

DecodeStep ==
    /\ cpc = "decode"
    /\ cdec' = decode_journal(craw)
    /\ cpc' = "done"
    /\ UNCHANGED <<centry, craw, reqVars>>

CodecNext == EncodeStep \/ DecodeStep

SpecCodec == CodecInit /\ [][CodecNext]_vars

(***************************************************************************)
(* Shape of a batch, stated apart from the validator.                      *)
(***************************************************************************)
OuterConsistent(b) ==
    /\ Len(b.assets) = Len(b.users)
    /\ Len(b.dst_chain_ids) = Len(b.users)
    /\ Len(b.chain_ids) = Len(b.users)

AssetsMismatchGroups(b) ==
    {g \in 1..Len(b.users) : Len(b.assets[g]) # Len(b.users[g])}

DstMismatchGroups(b) ==
    {g \in 1..Len(b.users) : Len(b.dst_chain_ids[g]) # Len(b.users[g])}

LengthsConsistent(b) ==
    /\ OuterConsistent(b)
    /\ AssetsMismatchGroups(b) = {}
    /\ DstMismatchGroups(b) = {}

Started(r) == pc[r] \notin {"Absent", "Start"}

(***************************************************************************)
(* C1.  No backend prove call is made for a request before its validation  *)
(* has succeeded: a request with a call on record is past validation and   *)
(* carries no validation error, and a batch in which some group has        *)
(* len(assets) # len(users) ends Rejected with a ValidationError and has   *)
(* no backend call in any state.                                           *)
(***************************************************************************)
C1_NoProveBeforeValidation ==
    \A r \in Req :
        /\ calls[r] # <<>> =>
              /\ pc[r] \in {"Submitted", "Completed", "Failed"}
              /\ err[r].class # "ValidationError"
        /\ pc[r] = "Rejected" => calls[r] = <<>>
        /\ (OuterConsistent(batch[r]) /\ AssetsMismatchGroups(batch[r]) # {}) =>
              /\ calls[r] = <<>>
              /\ Started(r) =>
                    /\ pc[r] = "Rejected"
                    /\ err[r].class = "ValidationError"

\* A batch with an assets mismatch has been rejected for it.
C1_Witness ==
    /\ pc[1] = "Rejected"
    /\ OuterConsistent(batch[1])
    /\ AssetsMismatchGroups(batch[1]) # {}
    /\ err[1].kind = "LengthMismatch"
    /\ err[1].field = "assets"
    /\ calls[1] = <<>>

(***************************************************************************)
(* C2.  As claimed: with l1_inclusion = true a request fails with          *)
(* UnsupportedL1Inclusion and the fixed message if and only if some group, *)
(* at any index, has a chain id outside {Optimism, Base, Linea and their   *)
(* Sepolia counterparts}; with l1_inclusion = false it never does.         *)
(***************************************************************************)
C2_AllowList ==
    {U64Of(10), U64Of(8453), U64Of(59144), U64Of(11155420), U64Of(84532),
     U64Of(59141)}

C2_HasUnsupportedChain(b) ==
    \E g \in 1..Len(b.chain_ids) : b.chain_ids[g] \notin C2_AllowList

C2_FailsWithL1Message(r) ==
    /\ pc[r] = "Rejected"
    /\ err[r].kind = "UnsupportedL1Inclusion"
    /\ err[r].msg =
         "L1 Inclusion only supported for Optimism, Base, Linea and their Sepolia variants"

C2_L1RejectionIffUnsupportedChain ==
    \A r \in Req :
        Started(r) =>
            /\ C2_FailsWithL1Message(r) <=>
                  (batch[r].l1_inclusion /\ C2_HasUnsupportedChain(batch[r]))
            /\ err[r].kind = "UnsupportedL1Inclusion" => C2_FailsWithL1Message(r)

(***************************************************************************)
(* C2, amended.  For a batch that passes the length rules: with            *)
(* l1_inclusion = true the request fails with UnsupportedL1Inclusion and   *)
(* the fixed message if and only if some group, at any index, has a chain  *)
(* id outside the allow-list (Ethereum and Ethereum Sepolia are outside    *)
(* it); with l1_inclusion = false no chain id causes this error.  A batch  *)
(* that breaks a length rule is rejected for that and never with           *)
(* UnsupportedL1Inclusion.                                                 *)
(***************************************************************************)
C2_L1RejectionAfterLengthRules ==
    \A r \in Req :
        Started(r) =>
            /\ C2_FailsWithL1Message(r) <=>
                  /\ LengthsConsistent(batch[r])
                  /\ batch[r].l1_inclusion
                  /\ C2_HasUnsupportedChain(batch[r])
            /\ err[r].kind = "UnsupportedL1Inclusion" => C2_FailsWithL1Message(r)
            /\ (\E g \in 1..Len(batch[r].chain_ids) :
                   batch[r].chain_ids[g] \in {U64Of(1), U64Of(11155111)})
                 => (pc[r] = "Rejected" \/ ~batch[r].l1_inclusion)

\* Rejected for a group that is not the first: the first group's chain is
\* on the allow-list, a later one is not.
C2_Witness ==
    /\ C2_FailsWithL1Message(1)
    /\ Len(batch[1].chain_ids) >= 2
    /\ batch[1].chain_ids[1] \in C2_AllowList
    /\ C2_HasUnsupportedChain(batch[1])

(***************************************************************************)
(* C3.  For a batch with consistent lengths (a batch with no groups and    *)
(* groups with no users included) the flattened sequence has as many       *)
(* elements as the groups have users, and the element at position          *)
(* (users in the groups before g) + i is (users[g][i], assets[g][i],       *)
(* chain_ids[g], dst_chain_ids[g][i], l1_inclusion): nothing is dropped,   *)
(* reordered or merged, also when (sender, market, dst_chain_id) repeats.  *)
(***************************************************************************)
C3_UsersBefore(users, g) ==
    LET before[k \in 1..(Len(users) + 1)] ==
            IF k = 1 THEN 0 ELSE before[k - 1] + Len(users[k - 1])
    IN  before[g]

C3_Flattened(r) == pc[r] \in {"Flattened", "Submitted", "Completed", "Failed"}

C3_FlattenPositional ==
    \A r \in Req :
        C3_Flattened(r) =>
            LET b == batch[r]
                obl == obligations[r]
            IN  /\ LengthsConsistent(b)
                /\ Len(obl) = C3_UsersBefore(b.users, Len(b.users) + 1)
                /\ \A g \in 1..Len(b.users) : \A i \in 1..Len(b.users[g]) :
                      LET o == obl[C3_UsersBefore(b.users, g) + i]
                      IN  /\ o.sender = b.users[g][i]
                          /\ o.market = b.assets[g][i]
                          /\ o.chain_id = b.chain_ids[g]
                          /\ o.dst_chain_id = b.dst_chain_ids[g][i]
                          /\ o.l1_inclusion = b.l1_inclusion

\* A flattened batch of two full groups in which two obligations of
\* different groups share sender, market and destination.
C3_Witness ==
    /\ pc[1] = "Flattened"
    /\ Len(batch[1].users) = 2
    /\ Len(obligations[1]) = 4
    /\ \E j \in 1..2 : \E k \in 3..4 :
          /\ obligations[1][j].sender = obligations[1][k].sender
          /\ obligations[1][j].market = obligations[1][k].market
          /\ obligations[1][j].dst_chain_id = obligations[1][k].dst_chain_id

\* A batch with a group of no users between its steps.
C3_WitnessEmptyGroup ==
    /\ pc[1] = "Flattened"
    /\ \E g \in 1..Len(batch[1].users) : batch[1].users[g] = <<>>
    /\ obligations[1] # <<>>

(***************************************************************************)
(* Agreement of a raw journal entry with an obligation on the five fields  *)
(* a journal entry shares with it; the entry's chain ids are its 32-bit    *)
(* fields, the obligation's are taken in their low 32 bits.                *)
(***************************************************************************)
EntryAgrees(raw, o) ==
    /\ Len(raw) = 113
    /\ SubSeq(raw, 1, 20) = o.sender
    /\ SubSeq(raw, 21, 40) = o.market
    /\ SubSeq(raw, 105, 108) =
         <<o.chain_id[3] \div 256, o.chain_id[3] % 256,
           o.chain_id[4] \div 256, o.chain_id[4] % 256>>
    /\ SubSeq(raw, 109, 112) =
         <<o.dst_chain_id[3] \div 256, o.dst_chain_id[3] % 256,
           o.dst_chain_id[4] \div 256, o.dst_chain_id[4] % 256>>
    /\ raw[113] = (IF o.l1_inclusion THEN 1 ELSE 0)

JournalMatches(j, obl) ==
    /\ j.wellformed
    /\ Len(j.elems) = Len(obl)
    /\ \A i \in 1..Len(obl) : EntryAgrees(j.elems[i], obl[i])

(***************************************************************************)
(* C4.  Whenever a request is Completed, on the local and on the market    *)
(* backend alike, its journal holds exactly as many entries as the         *)
(* flattened obligation sequence, and entry i carries the sender, market,  *)
(* chain_id, dst_chain_id and l1_inclusion of obligation i.                *)
(***************************************************************************)
C4_CompletedJournalMatches ==
    \A r \in Req :
        pc[r] = "Completed" => JournalMatches(journal[r], obligations[r])

(***************************************************************************)
(* C5.  decode_and_verify accepts a journal for an obligation sequence     *)
(* only if the entry count equals the obligation count and every entry     *)
(* agrees with the obligation at its position on all five fields, on the   *)
(* exec path and on the boundless path of the check: a journal with an     *)
(* extra or a missing entry, or with one differing field, is not accepted. *)
(***************************************************************************)
C5_VerifyAcceptsOnlyMatching ==
    \A r \in Req :
        pc[r] \in {"Completed", "Failed"} /\ err[r].class # "ProofError" =>
            \A path \in BOOLEAN :
                decode_and_verify([batch[r] EXCEPT !.boundless = path], journal[r]).ok
                    => JournalMatches(journal[r], Flatten(batch[r]))

(***************************************************************************)
(* C8.  As claimed: the assets-length rule is checked for every group      *)
(* before the dst_chain_ids-length rule is checked for any group, and both *)
(* before the L1-inclusion rule; the first failure in that order is the    *)
(* one reported.                                                           *)
(***************************************************************************)
C8_FirstOf(S) == CHOOSE g \in S : \A h \in S : g <= h

C8_Reported(r, kind, field, group_index) ==
    /\ pc[r] = "Rejected"
    /\ err[r].class = "ValidationError"
    /\ err[r].kind = kind
    /\ err[r].field = field
    /\ err[r].group_index = group_index

C8_RuleMajorOrder ==
    \A r \in Req :
        (Started(r) /\ OuterConsistent(batch[r])) =>
            LET b == batch[r]
            IN  IF AssetsMismatchGroups(b) # {}
                THEN C8_Reported(r, "LengthMismatch", "assets",
                                 C8_FirstOf(AssetsMismatchGroups(b)) - 1)
                ELSE IF DstMismatchGroups(b) # {}
                THEN C8_Reported(r, "LengthMismatch", "dst_chain_ids",
                                 C8_FirstOf(DstMismatchGroups(b)) - 1)
                ELSE IF b.l1_inclusion /\ C2_HasUnsupportedChain(b)
                THEN err[r].kind = "UnsupportedL1Inclusion"
                ELSE pc[r] # "Rejected"

(***************************************************************************)
(* C8, amended.  The length rules are checked group by group in index      *)
(* order, within a group assets before dst_chain_ids, and all of them      *)
(* before the L1-inclusion rule; the first failure in that order is the    *)
(* one reported.  A batch whose group 0 has only a dst_chain_ids mismatch  *)
(* and whose group 1 has an assets mismatch is rejected with               *)
(* LengthMismatch{dst_chain_ids, 0}; a batch with a length mismatch and an *)
(* unsupported L1-inclusion chain is rejected with LengthMismatch.         *)
(***************************************************************************)
C8_GroupMajorOrder ==
    \A r \in Req :
        (Started(r) /\ OuterConsistent(batch[r])) =>
            LET b == batch[r]
                bad == AssetsMismatchGroups(b) \cup DstMismatchGroups(b)
            IN  IF bad # {}
                THEN LET g == C8_FirstOf(bad)
                     IN  C8_Reported(r, "LengthMismatch",
                                     IF g \in AssetsMismatchGroups(b) THEN "assets"
                                     ELSE "dst_chain_ids",
                                     g - 1)
                ELSE IF b.l1_inclusion /\ C2_HasUnsupportedChain(b)
                THEN err[r].kind = "UnsupportedL1Inclusion"
                ELSE pc[r] # "Rejected"

\* Group 0 has only a dst_chain_ids mismatch, group 1 an assets mismatch,
\* a chain of the batch is unsupported under l1_inclusion, and the request
\* was rejected for group 0's dst_chain_ids.
C8_Witness ==
    /\ OuterConsistent(batch[1])
    /\ AssetsMismatchGroups(batch[1]) = {2}
    /\ DstMismatchGroups(batch[1]) = {1}
    /\ batch[1].l1_inclusion
    /\ C2_HasUnsupportedChain(batch[1])
    /\ C8_Reported(1, "LengthMismatch", "dst_chain_ids", 0)

(***************************************************************************)
(* C9.  A request changes state only along Validated, Flattened,           *)
(* Submitted, then Completed or Failed (entering at Validated, or ending   *)
(* Rejected, from Start): it is not Submitted without having been          *)
(* Flattened, not Flattened without having been Validated, never goes      *)
(* back, and Completed, Failed and Rejected are left by no step.           *)
(***************************************************************************)
C9_Order ==
    {<<"Start", "Validated">>, <<"Start", "Rejected">>,
     <<"Validated", "Flattened">>, <<"Flattened", "Submitted">>,
     <<"Submitted", "Completed">>, <<"Submitted", "Failed">>}

C9_StateOrder ==
    [][\A r \in Req : pc'[r] # pc[r] => <<pc[r], pc'[r]>> \in C9_Order]_vars

\* A request that went all the way to Completed on one backend call.
C9_Witness ==
    /\ pc[1] = "Completed"
    /\ Len(calls[1]) = 1
    /\ obligations[1] # <<>>

(***************************************************************************)
(* C10.  The backend's prove operation is called at most once for a        *)
(* request: a request that ended with a backend error (submission failure, *)
(* timeout, malformed response) is Failed with exactly one call on record, *)
(* and no state holds a second call.                                       *)
(***************************************************************************)
C10_AtMostOneProveCall ==
    \A r \in Req :
        /\ Len(calls[r]) <= 1
        /\ err[r].class = "ProofError" => (pc[r] = "Failed" /\ Len(calls[r]) = 1)
        /\ pc[r] \in {"Submitted", "Completed", "Failed"} => Len(calls[r]) = 1

\* A request Failed by a backend timeout, one call made.
C10_Witness ==
    /\ pc[1] = "Failed"
    /\ err[1].kind = "BackendTimeout"
    /\ Len(calls[1]) = 1

(***************************************************************************)
(* Codec claims (checked under SpecCodec).                                 *)
(***************************************************************************)
\* A codec run that encoded an entry and decoded the result.
RoundTripDone == cpc = "done" /\ centry # NoCodecEntry

\* The u64 with the value of a u32.
Widen(w) == <<0, 0, w[1], w[2]>>

FitsU32(x) == x[1] = 0 /\ x[2] = 0

(***************************************************************************)
(* C6.  As claimed: for any obligation with u64 chain ids and any pair of  *)
(* accumulators, decoding the 113-byte encoding of the entry yields an     *)
(* entry equal to the original in every field.                             *)
(***************************************************************************)
C6_RoundTripEveryField ==
    RoundTripDone =>
        /\ Len(craw) = 113
        /\ cdec.ok
        /\ cdec.entry.sender = centry.ob.sender
        /\ cdec.entry.market = centry.ob.market
        /\ cdec.entry.acc_amount_in = centry.acc_in
        /\ cdec.entry.acc_amount_out = centry.acc_out
        /\ Widen(cdec.entry.chain_id) = centry.ob.chain_id
        /\ Widen(cdec.entry.dst_chain_id) = centry.ob.dst_chain_id
        /\ cdec.entry.l1_inclusion = centry.ob.l1_inclusion

(***************************************************************************)
(* C6, amended.  For any obligation whose chain_id and dst_chain_id are    *)
(* below 2^32 (the width of the entry's two chain id fields) and any pair  *)
(* of accumulators, decoding the 113-byte encoding of the entry yields an  *)
(* entry equal to the original in every field.                             *)
(***************************************************************************)
C6_RoundTripWithin32Bits ==
    (RoundTripDone /\ FitsU32(centry.ob.chain_id) /\ FitsU32(centry.ob.dst_chain_id)) =>
        /\ Len(craw) = 113
        /\ cdec.ok
        /\ cdec.entry.sender = centry.ob.sender
        /\ cdec.entry.market = centry.ob.market
        /\ cdec.entry.acc_amount_in = centry.acc_in
        /\ cdec.entry.acc_amount_out = centry.acc_out
        /\ Widen(cdec.entry.chain_id) = centry.ob.chain_id
        /\ Widen(cdec.entry.dst_chain_id) = centry.ob.dst_chain_id
        /\ cdec.entry.l1_inclusion = centry.ob.l1_inclusion

\* A finished round trip of an entry with l1_inclusion set, a non-zero
\* accumulator and chain ids that use both 16-bit halves of the field.
C6_Witness ==
    /\ RoundTripDone
    /\ centry.ob.chain_id = U64Of(11155111)
    /\ centry.ob.dst_chain_id = U64Of(59144)
    /\ centry.ob.l1_inclusion
    /\ centry.acc_in = SomeAcc
    /\ centry.acc_out = ZeroAcc
    /\ cdec.ok

(***************************************************************************)
(* C7.  decode_journal accepts a byte string if and only if its length is  *)
(* exactly 113 and its byte at offset 112 is 0 or 1, whatever the other    *)
(* bytes are.                                                              *)
(***************************************************************************)
C7_DecodeAcceptsIff ==
    cpc = "done" =>
        (cdec.ok <=> (Len(craw) = 113 /\ craw[113] \in {0, 1}))

\* A 113-byte input with last byte 255 was rejected.
C7_Witness ==
    /\ cpc = "done"
    /\ Len(craw) = 113
    /\ craw[113] = 255
    /\ ~cdec.ok

\* A 113-byte input with byte 0xff in the chain id field was accepted.
C7_WitnessAnyOtherByte ==
    /\ cpc = "done"
    /\ Len(craw) = 113
    /\ craw[105] = 255
    /\ cdec.ok

(***************************************************************************)
(* Cancellation.  The caller may abandon a request that has not ended      *)
(* (the awaiting future is dropped); a caller that wants the proof after   *)
(* all issues a fresh request for the same batch.                          *)
(***************************************************************************)
\* Size plans with one size for every group.
UniformPlans(n) == { [g \in 1..n |-> s] : s \in 0..MaxUsers }

\* Chain id rotations: every group on an allow-listed chain; Ethereum first
\* among the groups.
FewRotations == {0, 2}

\* One request, its batch of consistent shape.
InitCancel ==
    \E n \in 0..MaxGroups : \E sz \in UniformPlans(n) : \E rot \in FewRotations :
        \E l1 \in BOOLEAN : \E bf \in BackendFlags :
            InitWith(MakeBatch(n, sz, rot, 0, 0, "none", l1, FALSE, bf[1], bf[2]))

\* One request: a batch of consistent shape with groups of one size, on
\* every rotation of the chain ids and either backend, or a batch with a
\* vector one element too long.
InitUniform ==
    \E n \in 0..MaxGroups : \E sz \in UniformPlans(n) : \E rot \in Rotations :
        \E l1 \in BOOLEAN : \E bf \in BackendFlags :
            \E p \in Perturbations(n) \cup {<<0, 0, "none">>} :
                /\ p # <<0, 0, "none">> => (rot = 0 /\ ~bf[1])
                /\ InitWith(MakeBatch(n, sz, rot, p[1], p[2], p[3], l1, FALSE,
                                      bf[1], bf[2]))

SpecUniform == InitUniform /\ [][Next]_vars

Cancel(r) ==
    /\ pc[r] \in {"Start", "Validated", "Flattened", "Submitted"}
    /\ pc' = [pc EXCEPT ![r] = "Cancelled"]
    /\ UNCHANGED <<batch, err, obligations, calls, journal, seal, anchored, codecVars>>

\* The caller's retry of a cancelled request: request 2 arrives with the
\* batch of request 1 and starts from the beginning.
RetryAsFresh ==
    /\ pc[1] = "Cancelled"
    /\ pc[2] = "Absent"
    /\ batch' = [batch EXCEPT ![2] = batch[1]]
    /\ pc' = [pc EXCEPT ![2] = "Start"]
    /\ UNCHANGED <<err, obligations, calls, journal, seal, anchored, codecVars>>

NextCancel ==
    \/ Next
    \/ \E r \in Req : Cancel(r)
    \/ RetryAsFresh

SpecCancel == InitCancel /\ [][NextCancel]_vars

(***************************************************************************)
(* C11.  On-chain anchoring happens at most once for a request under       *)
(* every interleaving of the caller's cancellation with the submission:    *)
(* every step leaves the count of anchorings as it was or takes it from 0  *)
(* to 1, and only for a submit_onchain request (so an anchoring is never   *)
(* undone nor repeated); a cancelled request takes no further step: it     *)
(* stays Cancelled with the anchorings, backend calls, obligations and     *)
(* outputs it had when it was cancelled, so one cancelled before anchoring *)
(* is never anchored and a retry runs as a fresh request.                  *)
(***************************************************************************)
C11_AnchorAtMostOnceUnderCancel ==
    [][\A r \in Req :
          /\ anchored'[r] = anchored[r] \/ (anchored[r] = 0 /\ anchored'[r] = 1)
          /\ anchored'[r] # anchored[r] => (batch[r].onchain /\ batch[r].boundless)
          /\ pc[r] = "Cancelled" =>
                /\ pc'[r] = "Cancelled"
                /\ anchored'[r] = anchored[r]
                /\ calls'[r] = calls[r]
                /\ batch'[r] = batch[r]
                /\ obligations'[r] = obligations[r]
                /\ journal'[r] = journal[r]
                /\ seal'[r] = seal[r]
                /\ err'[r] = err[r]]_vars

\* Request 1 was cancelled after its anchoring committed and stays
\* anchored once; the retry ran as request 2 and made its own submission.
C11_Witness ==
    /\ pc[1] = "Cancelled"
    /\ anchored[1] = 1
    /\ pc[2] = "Completed"
    /\ Len(calls[2]) = 1
    /\ anchored[2] = 1

\* Request 1 was cancelled while its submit_onchain submission was pending
\* and not yet anchored; the retry has since run to its end.
C11_WitnessCancelledBeforeAnchor ==
    /\ pc[1] = "Cancelled"
    /\ Len(calls[1]) = 1
    /\ calls[1][1].onchain
    /\ anchored[1] = 0
    /\ pc[2] \in {"Completed", "Failed"}

(***************************************************************************)
(* Two requests in flight together.  Request 2 carries the batch of        *)
(* request 1, or that batch with submit_onchain or fallback set the other  *)
(* way, or another batch.                                                  *)
(***************************************************************************)
Relations == {"same", "onchain", "fallback", "other"}

\* test_prove_get_proof_data_boundless_on_linea's arguments, off chain.
OtherBatch ==
    [users |-> <<<<TEST_USER>>>>, assets |-> <<<<WETH_MARKET>>>>,
     dst_chain_ids |-> <<<<U64Of(OPTIMISM_CHAIN_ID)>>>>,
     chain_ids |-> <<U64Of(LINEA_CHAIN_ID)>>,
     l1_inclusion |-> FALSE, fallback |-> FALSE, boundless |-> TRUE, onchain |-> FALSE]

Related(b, rel) ==
    CASE rel = "same" -> b
      [] rel = "onchain" -> [b EXCEPT !.onchain = ~@]
      [] rel = "fallback" -> [b EXCEPT !.fallback = ~@]
      [] rel = "other" -> OtherBatch

InitPair(b1, b2) ==
    /\ batch = [r \in Req |-> IF r = 1 THEN b1 ELSE b2]
    /\ pc = [r \in Req |-> "Start"]
    /\ err = [r \in Req |-> NoErr]
    /\ obligations = [r \in Req |-> <<>>]
    /\ calls = [r \in Req |-> <<>>]
    /\ journal = [r \in Req |-> NoJournal]
    /\ seal = [r \in Req |-> NoSeal]
    /\ anchored = [r \in Req |-> 0]
    /\ CodecIdle

\* submit_onchain is an argument of the market entry point only: the two
\* batches differ in it when both go to the market backend (request 1 off
\* chain, request 2 on chain).  Chain ids off the allow-list matter with
\* l1_inclusion set.
InitConcurrent ==
    \E n \in 0..MaxGroups : \E sz \in UniformPlans(n) : \E rot \in FewRotations :
        \E l1 \in BOOLEAN : \E bf \in BackendFlags : \E rel \in Relations :
            \E p \in Perturbations(n) \cup {<<0, 0, "none">>} :
                /\ ~l1 => rot = 0
                /\ rel = "onchain" => bf = <<TRUE, FALSE>>
                /\ rel = "fallback" => ~bf[2]
                /\ rel = "other" => ~bf[1]
                /\ LET b == MakeBatch(n, sz, rot, p[1], p[2], p[3], l1, FALSE,
                                      bf[1], bf[2])
                   IN  InitPair(b, Related(b, rel))

SpecConcurrent == InitConcurrent /\ [][Next]_vars

(***************************************************************************)
(* Two runs compared: what the two requests of a pair agree on.            *)
(***************************************************************************)
Validation_Done(r) == pc[r] \notin {"Absent", "Start", "Cancelled"}

Flatten_Done(r) == pc[r] \in {"Flattened", "Submitted", "Completed", "Failed"}

Answered(r) == pc[r] \in {"Completed", "Failed"} /\ err[r].class # "ProofError"

\* The five checked fields of the first n entries of journal j.
CheckedFields(j, n) ==
    [k \in 1..n |->
        LET e == decode_journal(j.elems[k]).entry
        IN  <<e.sender, e.market, e.chain_id, e.dst_chain_id, e.l1_inclusion>>]

SameValidation ==
    (Validation_Done(1) /\ Validation_Done(2)) =>
        /\ (pc[1] = "Rejected") <=> (pc[2] = "Rejected")
        /\ pc[1] = "Rejected" => err[1] = err[2]

SameObligations ==
    /\ TotalExpectedEntries(batch[1].users) = TotalExpectedEntries(batch[2].users)
    /\ (Flatten_Done(1) /\ Flatten_Done(2)) => obligations[1] = obligations[2]

\* A journal either run received gets the same verdict from the check of
\* the other run, and two completed runs hold the same checked fields.
SameJournalCheck ==
    /\ \A r \in Req :
          Answered(r) =>
              decode_and_verify(batch[1], journal[r])
                  = decode_and_verify(batch[2], journal[r])
    /\ (pc[1] = "Completed" /\ pc[2] = "Completed") =>
          CheckedFields(journal[1], Len(obligations[1]))
              = CheckedFields(journal[2], Len(obligations[2]))

SameCallBut(flag) ==
    (Len(calls[1]) = 1 /\ Len(calls[2]) = 1) =>
        LET c1 == calls[1][1]
            c2 == calls[2][1]
        IN  /\ c1.backend = c2.backend
            /\ c1.obligations = c2.obligations
            /\ c1.l1_inclusion = c2.l1_inclusion
            /\ flag # "fallback" => c1.fallback = c2.fallback
            /\ flag # "onchain" => c1.onchain = c2.onchain

(***************************************************************************)
(* C12.  Two market runs on one batch that differ only in submit_onchain   *)
(* agree on the validation outcome (rejected or not, and the error), on    *)
(* the flattened obligation sequence and the expected entry count, and on  *)
(* the journal check: a journal gets the same verdict in both runs and     *)
(* two completed runs hold the same sender, market, chain_id, dst_chain_id *)
(* and l1_inclusion at every position.  Their backend calls differ in the  *)
(* submit_onchain argument only, and only the on-chain run is anchored.    *)
(***************************************************************************)
C12_Pair ==
    /\ batch[1].boundless
    /\ batch[2] = [batch[1] EXCEPT !.onchain = ~@]

C12_OnchainChangesOnlyChannel ==
    C12_Pair =>
        /\ SameValidation
        /\ SameObligations
        /\ SameJournalCheck
        /\ SameCallBut("onchain")
        /\ \A r \in Req :
              /\ Len(calls[r]) = 1 =>
                    (calls[r][1].backend = "market"
                        /\ calls[r][1].onchain = batch[r].onchain)
              /\ anchored[r] > 0 => batch[r].onchain

\* Both runs completed on a batch with obligations; the on-chain run was
\* anchored, the off-chain run was not.
C12_Witness ==
    /\ C12_Pair
    /\ pc[1] = "Completed"
    /\ pc[2] = "Completed"
    /\ obligations[1] # <<>>
    /\ anchored[1] = 0
    /\ anchored[2] = 1

(***************************************************************************)
(* C13.  Two runs on one batch that differ only in fallback agree on the   *)
(* validation outcome (the L1-inclusion rejection included), on the        *)
(* flattened obligation sequence and the expected entry count, on the      *)
(* backend selected and on the journal check; each run's backend call      *)
(* carries the fallback value its caller gave.                             *)
(***************************************************************************)
C13_Pair == batch[2] = [batch[1] EXCEPT !.fallback = ~@]

C13_FallbackPassedThrough ==
    C13_Pair =>
        /\ SameValidation
        /\ SameObligations
        /\ SameJournalCheck
        /\ SameCallBut("fallback")
        /\ \A r \in Req :
              Len(calls[r]) = 1 =>
                  /\ calls[r][1].fallback = batch[r].fallback
                  /\ calls[r][1].backend
                        = (IF batch[r].boundless THEN "market" ELSE "local")

\* Both runs completed, the second with fallback set and handed on.
C13_Witness ==
    /\ C13_Pair
    /\ pc[1] = "Completed"
    /\ pc[2] = "Completed"
    /\ obligations[2] # <<>>
    /\ calls[2][1].fallback
    /\ ~calls[1][1].fallback

\* Both runs rejected with the L1-inclusion error.
C13_WitnessRejected ==
    /\ C13_Pair
    /\ pc[1] = "Rejected"
    /\ pc[2] = "Rejected"
    /\ err[1].kind = "UnsupportedL1Inclusion"
    /\ err[2] = err[1]

(***************************************************************************)
(* C14.  Requests in flight together do not affect one another: in every   *)
(* reachable state each request's state, obligations, backend call and     *)
(* result are what a run of that request alone on its own batch and its    *)
(* own backend answer gives, and every step changes one request only.  In  *)
(* particular two requests for the same batch each make their own backend  *)
(* call: none passes Submitted on the call or the answer of the other.     *)
(***************************************************************************)
ReqView(r) ==
    <<batch[r], pc[r], err[r], obligations[r], calls[r], journal[r], seal[r],
      anchored[r]>>

\* Request r's state is a state of a run of r alone.
AloneState(r) ==
    LET b == batch[r]
        v == validate(b)
        obl == Flatten(b)
        own == <<ProveCall(b, obl)>>
        chk == decode_and_verify(b, journal[r])
        blank == /\ err[r] = NoErr
                 /\ journal[r] = NoJournal
                 /\ seal[r] = NoSeal
    IN  CASE pc[r] = "Start" ->
               blank /\ obligations[r] = <<>> /\ calls[r] = <<>>
          [] pc[r] = "Rejected" ->
               /\ v.kind # "Ok"
               /\ err[r] = ValidationError(v)
               /\ obligations[r] = <<>> /\ calls[r] = <<>>
               /\ journal[r] = NoJournal
          [] pc[r] = "Validated" ->
               v.kind = "Ok" /\ blank /\ obligations[r] = <<>> /\ calls[r] = <<>>
          [] pc[r] = "Flattened" ->
               v.kind = "Ok" /\ blank /\ obligations[r] = obl /\ calls[r] = <<>>
          [] pc[r] = "Submitted" ->
               v.kind = "Ok" /\ blank /\ obligations[r] = obl /\ calls[r] = own
          [] pc[r] = "Completed" ->
               /\ obligations[r] = obl /\ calls[r] = own
               /\ chk.ok
               /\ err[r] = NoErr
          [] pc[r] = "Failed" ->
               /\ obligations[r] = obl /\ calls[r] = own
               /\ \/ \E e \in BackendErrors : err[r] = ProofError(e) /\ journal[r] = NoJournal
                  \/ /\ journal[r] # NoJournal
                     /\ ~chk.ok
                     /\ err[r] = CheckError(chk)
          [] OTHER -> FALSE

C14_ConcurrentRequestsIndependent ==
    /\ [](\A r \in Req : AloneState(r))
    /\ [][\A r, q \in Req :
             (r # q /\ ReqView(r)' # ReqView(r)) => ReqView(q)' = ReqView(q)]_vars

\* Two requests for one batch, each with its own call: one Completed, the
\* other Failed on its own backend answer.
C14_Witness ==
    /\ batch[1] = batch[2]
    /\ obligations[1] # <<>>
    /\ pc[1] = "Completed"
    /\ pc[2] = "Failed"
    /\ Len(calls[1]) = 1
    /\ Len(calls[2]) = 1

(***************************************************************************)
(* C15.  A backend error is the whole result of the batch: a request that  *)
(* ended with a ProofError is Failed on its one call and holds no journal  *)
(* bytes, no decoded entries and no seal, however many obligations the     *)
(* batch has and whether or not the backend had already anchored the       *)
(* submission; the error it holds is one of the backend's errors.          *)
(***************************************************************************)
C15_BackendErrorIsWholeResult ==
    \A r \in Req :
        err[r].class = "ProofError" =>
            /\ pc[r] = "Failed"
            /\ err[r] \in {ProofError(e) : e \in BackendErrors}
            /\ journal[r] = NoJournal
            /\ ~journal[r].returned
            /\ journal[r].elems = <<>>
            /\ seal[r] = NoSeal

\* A market request with several obligations failed by the backend after
\* its submission had been anchored.
C15_Witness ==
    /\ pc[1] = "Failed"
    /\ err[1].class = "ProofError"
    /\ Len(obligations[1]) > 1
    /\ anchored[1] = 1
    /\ journal[1] = NoJournal

\* A local request with several obligations failed by the backend.
C15_WitnessLocal ==
    /\ pc[1] = "Failed"
    /\ err[1].kind = "BackendSubmissionFailure"
    /\ Len(obligations[1]) > 1
    /\ ~batch[1].boundless

(***************************************************************************)
(* C16.  The positional check compares chain ids in 32 bits.  For every    *)
(* journal a request received and every checked position whose entry       *)
(* decodes and agrees on sender, market and l1_inclusion, the check        *)
(* passes the entry exactly when its chain_id and dst_chain_id equal the   *)
(* request's 64-bit values modulo 2^32; and the verdict on the journal is  *)
(* the same for the request with any group's chain id replaced by the      *)
(* chain id 2^32 away from it.                                             *)
(***************************************************************************)
\* c mod 2^32, as a u64.
C16_Mod32(c) == <<0, 0, c[3], c[4]>>

\* The chain id congruent to c modulo 2^32 that differs from it in bit 32.
C16_Congruent(c) == [c EXCEPT ![2] = IF @ % 2 = 0 THEN @ + 1 ELSE @ - 1]

C16_CheckComparesMod32 ==
    \A r \in Req :
        (Answered(r) /\ journal[r].wellformed) =>
            LET b == batch[r]
                P == Positions(b.users)
                J == journal[r].elems
            IN  /\ \A k \in 1..Len(P) :
                      LET g == P[k][1]
                          i == P[k][2]
                          d == decode_journal(J[k])
                      IN  (/\ k <= Len(J)
                           /\ d.ok
                           /\ d.entry.sender = b.users[g][i]
                           /\ d.entry.market = b.assets[g][i]
                           /\ d.entry.l1_inclusion = b.l1_inclusion)
                          => (CheckEntry(b, g, i, J[k]).ok
                                <=> /\ Widen(d.entry.chain_id) = C16_Mod32(b.chain_ids[g])
                                    /\ Widen(d.entry.dst_chain_id)
                                          = C16_Mod32(b.dst_chain_ids[g][i]))
                /\ \A g \in 1..Len(b.chain_ids) :
                      decode_and_verify(
                          [b EXCEPT !.chain_ids[g] = C16_Congruent(@)], journal[r]).ok
                        = decode_and_verify(b, journal[r]).ok

\* A request for a chain id of 2^32 + 10 completed on a journal whose
\* entry carries chain id 10.
C16_Witness ==
    /\ pc[1] = "Completed"
    /\ \E k \in 1..Len(obligations[1]) :
          /\ obligations[1][k].chain_id = HIGH_OPTIMISM
          /\ Widen(decode_journal(journal[1].elems[k]).entry.chain_id)
                = U64Of(OPTIMISM_CHAIN_ID)

\* A request Failed on an entry that differs in the low 32 bits of its
\* chain id only.
C16_WitnessRejected ==
    /\ pc[1] = "Failed"
    /\ err[1].msg = "Chain ID should match the test chain ID"

(***************************************************************************)
(* Progress.  The helper is one sequential task that the runtime runs to   *)
(* its next await: each of its own steps is taken once it can be.  The     *)
(* backend answers every call it received, with a result or an error (a    *)
(* timeout is one of its errors).                                          *)
(***************************************************************************)
Fairness ==
    \A r \in Req :
        /\ WF_vars(Validate(r))
        /\ WF_vars(FlattenStep(r))
        /\ WF_vars(Submit(r))
        /\ WF_vars(BackendFails(r) \/ BackendReturns(r))

SpecLive == InitUniform /\ [][Next]_vars /\ Fairness

Final == {"Rejected", "Completed", "Failed"}

(***************************************************************************)
(* C17.  With a backend that answers every call, every request that has    *)
(* arrived ends: it reaches Rejected, Completed or Failed, and so stays in *)
(* none of Start, Validated, Flattened, Submitted forever.  The outcome is *)
(* final (no step leaves it); a Rejected request holds a validation error  *)
(* and made no backend call; a request that received a BackendTimeout is   *)
(* Failed with that error.                                                 *)
(***************************************************************************)
C17_EveryRequestEnds ==
    /\ \A r \in Req : (pc[r] # "Absent") ~> (pc[r] \in Final)
    /\ [](\A r \in Req :
            /\ pc[r] = "Rejected" =>
                  (err[r].class = "ValidationError" /\ calls[r] = <<>>)
            /\ pc[r] = "Completed" => err[r] = NoErr
            /\ err[r].kind = "BackendTimeout" =>
                  (pc[r] = "Failed" /\ err[r] = ProofError("BackendTimeout")))
    /\ [][\A r \in Req : pc[r] \in Final => pc'[r] = pc[r]]_vars

\* A market request with obligations, anchored on chain, that the backend
\* answered with a timeout.
C17_Witness ==
    /\ pc[1] = "Failed"
    /\ err[1] = ProofError("BackendTimeout")
    /\ obligations[1] # <<>>
    /\ batch[1].boundless
    /\ anchored[1] = 1

====
